---- MODULE Spec2Model ----
(***************************************************************************)
(* Model of the component usage counter: the directory walk, the import    *)
(* extractor, the usage extractor and the report's "no usage" block, in    *)
(* its two variants (split markup/call tables: script-func-comp.js; one    *)
(* merged table: the earlier script).                                      *)
(*                                                                         *)
(* A file's text is a sequence of statements.  A statement is the piece of *)
(* text one of the program's regular expressions can match, given by its   *)
(* kind and by the text of its capture groups (real strings, processed     *)
(* character by character as the code does).                               *)
(***************************************************************************)
EXTENDS Integers, Sequences, FiniteSets, TLC

(***************************************************************************)
(* Configuration                                                           *)
(***************************************************************************)
targetPackageName == "your-package-name"
fileExtensions == {".ts", ".tsx", ".js", ".jsx"}
ignorePatterns == {"node_modules", "dist", "build", ".git"}

(***************************************************************************)
(* String primitives of the host language                                  *)
(***************************************************************************)
\* String.prototype.includes
includes(s, p) ==
    \E i \in 1..(Len(s) - Len(p) + 1) : SubSeq(s, i, i + Len(p) - 1) = p

\* String.prototype.startsWith
startsWith(s, p) == Len(s) >= Len(p) /\ SubSeq(s, 1, Len(p)) = p

\* String.prototype.substring(n): the text after the first n characters
substring(s, n) == SubSeq(s, n + 1, Len(s))

\* String.prototype.trim (the only white space of the model's texts is " ")
RECURSIVE trimStart(_)
trimStart(s) ==
    IF Len(s) > 0 /\ SubSeq(s, 1, 1) = " " THEN trimStart(SubSeq(s, 2, Len(s)))
    ELSE s

RECURSIVE trimEnd(_)
trimEnd(s) ==
    IF Len(s) > 0 /\ SubSeq(s, Len(s), Len(s)) = " "
    THEN trimEnd(SubSeq(s, 1, Len(s) - 1))
    ELSE s

trim(s) == trimEnd(trimStart(s))

\* position of the first occurrence of sep in s, 0 if there is none
indexOf(s, sep) ==
    LET hits == {i \in 1..(Len(s) - Len(sep) + 1) :
                    SubSeq(s, i, i + Len(sep) - 1) = sep}
    IN  IF hits = {} THEN 0 ELSE CHOOSE i \in hits : \A j \in hits : i <= j

\* s.split(sep)[0]
splitFirst(s, sep) ==
    LET at == indexOf(s, sep)
    IN  IF at = 0 THEN s ELSE SubSeq(s, 1, at - 1)

\* s.split(sep) for a non-empty separator: "".split(",") is [""]
RECURSIVE split(_, _)
split(s, sep) ==
    LET at == indexOf(s, sep)
    IN  IF at = 0 THEN <<s>>
        ELSE <<SubSeq(s, 1, at - 1)>> \o
             split(SubSeq(s, at + Len(sep), Len(s)), sep)

\* path.join(dirPath, entry) for a normalised dirPath and a plain entry name
pathJoin(dirPath, entry) == dirPath \o "/" \o entry

\* the last path segment
basename(p) ==
    LET slashes == {i \in 1..Len(p) : SubSeq(p, i, i) = "/"}
    IN  IF slashes = {} THEN p
        ELSE SubSeq(p, (CHOOSE i \in slashes : \A j \in slashes : j <= i) + 1,
                    Len(p))

\* path.extname: from the last "." of the last segment, "" if there is none
\* or if the segment only starts with it
extname(p) ==
    LET b == basename(p)
        dots == {i \in 1..Len(b) : SubSeq(b, i, i) = "."}
        last == CHOOSE i \in dots : \A j \in dots : j <= i
    IN  IF dots = {} THEN ""
        ELSE IF last = 1 THEN ""
        ELSE SubSeq(b, last, Len(b))

(***************************************************************************)
(* File texts                                                              *)
(***************************************************************************)
\* import { <text> } from "<module>"
NamedImport(text, module) ==
    [kind |-> "namedImport", text |-> text, member |-> "", module |-> module]
\* import <text> from "<module>"
DefaultImport(text, module) ==
    [kind |-> "defaultImport", text |-> text, member |-> "", module |-> module]
\* import * as <text> from "<module>"
NamespaceImport(text, module) ==
    [kind |-> "namespaceImport", text |-> text, member |-> "", module |-> module]
\* const { <text> } = require("<module>")
Require(text, module) ==
    [kind |-> "require", text |-> text, member |-> "", module |-> module]
\* const <text> = require("<module>")
RequireDefault(text, module) ==
    [kind |-> "requireDefault", text |-> text, member |-> "", module |-> module]
\* <Name>  (an opening tag; "selfTag" is <Name />, "closeTag" is </Name>)
Tag(kind, name) == [kind |-> kind, text |-> name, member |-> "", module |-> ""]
\* <NS.Member />, <NS.Member>, </NS.Member>
MemberTag(kind, ns, member) ==
    [kind |-> kind, text |-> ns, member |-> member, module |-> ""]
\* Name(
Call(name) == [kind |-> "call", text |-> name, member |-> "", module |-> ""]
\* obj.Member(
MemberCall(obj, member) ==
    [kind |-> "memberCall", text |-> obj, member |-> member, module |-> ""]

(***************************************************************************)
(* Import extractor                                                        *)
(***************************************************************************)
\* the five shared patterns, each a global RegExp with its own lastIndex
importPatterns ==
    {"namedImport", "defaultImport", "namespaceImport", "require",
     "requireDefault"}

\* every pattern at scan position 0
resetIndex == [kind \in importPatterns |-> 0]

\* the statements of content a pattern matches: the pattern's idiom, naming
\* the target package
importMatches(content, kind) ==
    {i \in 1..Len(content) :
        content[i].kind = kind /\ content[i].module = targetPackageName}

\* pattern.exec(content) that leaves lastIndex where it was on a failed search
execKeepingIndex(content, kind, lastIdx) ==
    LET later == {i \in importMatches(content, kind) : i > lastIdx}
    IN  IF later = {} THEN [match |-> 0, lastIndex |-> lastIdx]
        ELSE LET i == CHOOSE j \in later : \A k \in later : j <= k
             IN  [match |-> i, lastIndex |-> i]

\* pattern.exec(content) with the pattern's lastIndex at lastIdx: the first
\* match after that position, where lastIndex then stands; no match (0) puts
\* lastIndex back to 0
exec(content, kind, lastIdx) ==
    LET later == {i \in importMatches(content, kind) : i > lastIdx}
    IN  IF later = {} THEN [match |-> 0, lastIndex |-> 0]
        ELSE LET i == CHOOSE j \in later : \A k \in later : j <= k
             IN  [match |-> i, lastIndex |-> i]

\* if (!componentUsage[c]) componentUsage[c] = new Set(); .add(filePath)
addImport(usage, component, filePath) ==
    IF component \in DOMAIN usage
    THEN [usage EXCEPT ![component] = @ \cup {filePath}]
    ELSE usage @@ (component :> {filePath})

RECURSIVE addImports(_, _, _)
addImports(usage, components, filePath) ==
    IF components = <<>> THEN usage
    ELSE addImports(addImport(usage, Head(components), filePath),
                    Tail(components), filePath)

\* match[1].split(",").map((s) => s.trim().split(" as ")[0].trim())
namedComponents(text) ==
    LET parts == split(text, ",")
    IN  [i \in 1..Len(parts) |-> trim(splitFirst(trim(parts[i]), " as "))]

\* match[1].split(",").map((s) => s.trim().split(" as ")[0].split(":")[0].trim())
requireComponents(text) ==
    LET parts == split(text, ",")
    IN  [i \in 1..Len(parts) |->
            trim(splitFirst(splitFirst(trim(parts[i]), " as "), ":"))]

\* the components one matched statement registers
importedBy(st) ==
    CASE st.kind = "namedImport" -> namedComponents(st.text)
      [] st.kind = "defaultImport" ->
            IF trim(st.text) # targetPackageName THEN <<trim(st.text)>>
            ELSE <<>>
      [] st.kind = "namespaceImport" -> <<"*" \o trim(st.text)>>
      [] st.kind = "require" -> requireComponents(st.text)
      [] st.kind = "requireDefault" -> <<trim(st.text)>>

\* one while ((match = pattern.exec(content)) !== null) loop, begun with the
\* pattern's lastIndex at lastIdx: the table and the lastIndex it ends with
RECURSIVE scanImports(_, _, _, _, _)
scanImports(usage, content, kind, filePath, lastIdx) ==
    LET found == exec(content, kind, lastIdx)
    IN  IF found.match = 0
        THEN [usage |-> usage, lastIndex |-> found.lastIndex]
        ELSE scanImports(addImports(usage, importedBy(content[found.match]),
                                    filePath),
                         content, kind, filePath, found.lastIndex)

\* the scan positions the loops of findImports begin with: the split variant
\* first sets every lastIndex to 0, the merged one takes them as they are
startIndex(v, lastIdx) == IF v = "split" THEN resetIndex ELSE lastIdx

\* the five loops in code order, begun at the positions start
findImportsFrom(usage, content, filePath, start) ==
    LET r1 == scanImports(usage, content, "namedImport", filePath,
                          start["namedImport"])
        r2 == scanImports(r1.usage, content, "defaultImport", filePath,
                          start["defaultImport"])
        r3 == scanImports(r2.usage, content, "namespaceImport", filePath,
                          start["namespaceImport"])
        r4 == scanImports(r3.usage, content, "require", filePath,
                          start["require"])
        r5 == scanImports(r4.usage, content, "requireDefault", filePath,
                          start["requireDefault"])
    IN  [usage |-> r5.usage,
         lastIndex |-> ("namedImport" :> r1.lastIndex) @@
                       ("defaultImport" :> r2.lastIndex) @@
                       ("namespaceImport" :> r3.lastIndex) @@
                       ("require" :> r4.lastIndex) @@
                       ("requireDefault" :> r5.lastIndex)]

\* findImports on patterns that stand at position 0
findImports(usage, content, filePath) ==
    findImportsFrom(usage, content, filePath, resetIndex).usage

(***************************************************************************)
(* Usage extractor                                                         *)
(***************************************************************************)
\* push keeping one entry per file, as a set would
pushOncePerFile(table, key, filePath) ==
    IF key \in DOMAIN table
    THEN IF \E i \in 1..Len(table[key]) : table[key][i] = filePath
         THEN table
         ELSE [table EXCEPT ![key] = Append(@, filePath)]
    ELSE table @@ (key :> <<filePath>>)

\* if (!table[key]) table[key] = []; table[key].push(filePath)
push(table, key, filePath) ==
    IF key \in DOMAIN table
    THEN [table EXCEPT ![key] = Append(@, filePath)]
    ELSE table @@ (key :> <<filePath>>)

RECURSIVE pushAll(_, _, _)
pushAll(table, keys, filePath) ==
    IF keys = <<>> THEN table
    ELSE pushAll(push(table, Head(keys), filePath), Tail(keys), filePath)

\* table[key]?.includes(filePath)
listed(table, key, filePath) ==
    key \in DOMAIN table /\ \E i \in 1..Len(table[key]) : table[key][i] = filePath

\* `${namespaceAlias}.${componentName}` for each match
fullNames(matches) ==
    [i \in 1..Len(matches) |-> matches[i].text \o "." \o matches[i].member]

\* with the empty string for the component the patterns lose the name: the
\* markup ones then match "<" before "/", the call ones "(" after any name
emptyName(component) == component = ""

\* <Component(?![\w-])[^>]*?(?:>|/>) : an opening or self-closing tag of the
\* component, also one that goes on with a member (<Component.Member>),
\* never a closing tag, unless the component is the empty string
extractJSXUsage(content, component) ==
    SelectSeq(content,
              LAMBDA st : \/ st.text = component /\
                             st.kind \in {"openTag", "selfTag",
                                          "memberOpenTag", "memberSelfTag"}
                          \/ emptyName(component) /\
                             st.kind \in {"closeTag", "memberCloseTag"})

\* (?<![.<])\bComponent\s*\( : a call not preceded by "." or "<"
functionCallMatches(content, component) ==
    SelectSeq(content,
              LAMBDA st : \/ st.kind = "call" /\ st.text = component
                          \/ emptyName(component) /\
                             st.kind \in {"call", "memberCall", "require",
                                          "requireDefault"})

\* <Alias\.([A-Za-z0-9_]+)(?![\w-])[^>]*?(?:>|/>)
namespaceJSXMatches(content, namespaceAlias) ==
    SelectSeq(content,
              LAMBDA st : st.text = namespaceAlias /\
                          st.kind \in {"memberOpenTag", "memberSelfTag"})

\* Alias\.([A-Za-z0-9_]+)\s*\(
namespaceFuncMatches(content, namespaceAlias) ==
    SelectSeq(content,
              LAMBDA st : st.kind = "memberCall" /\ st.text = namespaceAlias)

\* componentUsagesSplit without the file-level suppression of the calls of a
\* component used as markup in the file
componentUsagesSplitNoSuppression(inst, component, content, filePath) ==
    IF startsWith(component, "*")
    THEN LET namespaceAlias == substring(component, 1)
             jsxNames == fullNames(namespaceJSXMatches(content, namespaceAlias))
             namespaceComponents == {jsxNames[i] : i \in 1..Len(jsxNames)}
             funcNames ==
                 SelectSeq(fullNames(namespaceFuncMatches(content, namespaceAlias)),
                           LAMBDA n : n \notin namespaceComponents)
         IN  [inst EXCEPT !.jsx = pushAll(@, jsxNames, filePath),
                          !.func = pushAll(@, funcNames, filePath)]
    ELSE LET jsxMatches == extractJSXUsage(content, component)
             funcMatches == Len(functionCallMatches(content, component))
         IN  [inst EXCEPT !.jsx = pushAll(@,
                                   [i \in 1..Len(jsxMatches) |-> component], filePath),
                          !.func = pushAll(@,
                                   [i \in 1..funcMatches |-> component], filePath)]

\* componentUsagesSplit without the skip of the namespace calls already
\* counted as markup
componentUsagesSplitNoNamespaceSkip(inst, component, content, filePath) ==
    IF startsWith(component, "*")
    THEN LET namespaceAlias == substring(component, 1)
         IN  [inst EXCEPT
                 !.jsx = pushAll(@, fullNames(namespaceJSXMatches(content,
                                        namespaceAlias)), filePath),
                 !.func = pushAll(@, fullNames(namespaceFuncMatches(content,
                                         namespaceAlias)), filePath)]
    ELSE LET jsxMatches == extractJSXUsage(content, component)
             jsx == pushAll(inst.jsx,
                            [i \in 1..Len(jsxMatches) |-> component], filePath)
             funcMatches == Len(functionCallMatches(content, component))
         IN  IF listed(jsx, component, filePath)
             THEN [inst EXCEPT !.jsx = jsx]
             ELSE [inst EXCEPT !.jsx = jsx,
                               !.func = pushAll(@,
                                   [i \in 1..funcMatches |-> component], filePath)]

\* the body of the loop over the components, split tables
componentUsagesSplit(inst, component, content, filePath) ==
    IF startsWith(component, "*")
    THEN LET namespaceAlias == substring(component, 1)
             jsxNames == fullNames(namespaceJSXMatches(content, namespaceAlias))
             namespaceComponents == {jsxNames[i] : i \in 1..Len(jsxNames)}
             funcNames ==
                 SelectSeq(fullNames(namespaceFuncMatches(content, namespaceAlias)),
                           LAMBDA n : n \notin namespaceComponents)
         IN  [inst EXCEPT !.jsx = pushAll(@, jsxNames, filePath),
                          !.func = pushAll(@, funcNames, filePath)]
    ELSE LET jsxMatches == extractJSXUsage(content, component)
             jsx == pushAll(inst.jsx,
                            [i \in 1..Len(jsxMatches) |-> component], filePath)
             funcMatches == Len(functionCallMatches(content, component))
         IN  IF listed(jsx, component, filePath)
             THEN [inst EXCEPT !.jsx = jsx]
             ELSE [inst EXCEPT !.jsx = jsx,
                               !.func = pushAll(@,
                                   [i \in 1..funcMatches |-> component], filePath)]

\* Alias\.([A-Za-z0-9_]+) : every member access, tag (closing ones too) or call
namespaceMatchesMerged(content, namespaceAlias) ==
    SelectSeq(content,
              LAMBDA st : st.text = namespaceAlias /\
                          st.kind \in {"memberOpenTag", "memberSelfTag",
                                       "memberCloseTag", "memberCall"})

\* <Component[\s/>]|<Component\.[A-Za-z0-9_]+[\s/>]
jsxMatchesMerged(content, component) ==
    SelectSeq(content,
              LAMBDA st : \/ st.text = component /\
                             st.kind \in {"openTag", "selfTag",
                                          "memberOpenTag", "memberSelfTag"}
                          \/ emptyName(component) /\
                             st.kind \in {"closeTag", "memberCloseTag"})

\* \bComponent\( : a call, also as a member (obj.Component()
functionCallMatchesMerged(content, component) ==
    SelectSeq(content,
              LAMBDA st : \/ st.kind = "call" /\ st.text = component
                          \/ st.kind = "memberCall" /\ st.member = component
                          \/ emptyName(component) /\
                             st.kind \in {"call", "memberCall", "require",
                                          "requireDefault"})

\* the body of the loop over the components, one merged table
componentUsagesMerged(inst, component, content, filePath) ==
    IF startsWith(component, "*")
    THEN [inst EXCEPT !.all =
             pushAll(@, fullNames(namespaceMatchesMerged(content,
                                      substring(component, 1))), filePath)]
    ELSE LET n == Len(jsxMatchesMerged(content, component)) +
                  Len(functionCallMatchesMerged(content, component))
         IN  [inst EXCEPT !.all =
                 pushAll(@, [i \in 1..n |-> component], filePath)]

\* for (const component of Object.keys(componentUsage)): each component
\* writes only its own usage keys, so the order of the keys is immaterial
RECURSIVE usagesOver(_, _, _, _, _)
usagesOver(v, inst, components, content, filePath) ==
    IF components = {} THEN inst
    ELSE LET component == CHOOSE c \in components : TRUE
             next == IF v = "split"
                     THEN componentUsagesSplit(inst, component, content, filePath)
                     ELSE componentUsagesMerged(inst, component, content, filePath)
         IN  usagesOver(v, next, components \ {component}, content, filePath)

\* findComponentUsages searching only for the components the file imports
findComponentUsagesPerFile(v, usage, inst, content, filePath) ==
    usagesOver(v, inst, {c \in DOMAIN usage : filePath \in usage[c]},
               content, filePath)

findComponentUsages(v, usage, inst, content, filePath) ==
    usagesOver(v, inst, DOMAIN usage, content, filePath)

(***************************************************************************)
(* Report                                                                  *)
(***************************************************************************)
\* Object.values(table).reduce((sum, instances) => sum + instances.length, 0)
RECURSIVE totalOver(_, _)
totalOver(table, keys) ==
    IF keys = {} THEN 0
    ELSE LET k == CHOOSE c \in keys : TRUE
         IN  Len(table[k]) + totalOver(table, keys \ {k})

totalInstances(table) == totalOver(table, DOMAIN table)

\* unusedComponents looking at the markup table only
unusedComponentsMarkupOnly(v, usage, inst) ==
    IF v = "split"
    THEN {c \in DOMAIN usage : c \notin DOMAIN inst.jsx /\ ~startsWith(c, "*")}
    ELSE {c \in DOMAIN usage : c \notin DOMAIN inst.all}

\* the components of the "no usage found" / "no instances found" block
\* (the block lists them sorted; the model keeps which ones are listed)
unusedComponents(v, usage, inst) ==
    IF v = "split"
    THEN {c \in DOMAIN usage :
             c \notin (DOMAIN inst.jsx \cup DOMAIN inst.func) /\
             ~startsWith(c, "*")}
    ELSE {c \in DOMAIN usage : c \notin DOMAIN inst.all}

generateReport(v, usage, inst) ==
    [totalImportedComponents |-> Cardinality(DOMAIN usage),
     totalJSXInstances |-> totalInstances(inst.jsx),
     totalFuncInstances |-> totalInstances(inst.func),
     totalInstances |-> totalInstances(inst.jsx) + totalInstances(inst.func) +
                        totalInstances(inst.all),
     unused |-> unusedComponents(v, usage, inst)]

(***************************************************************************)
(* The scanned tree and the texts of its files                             *)
(***************************************************************************)
\* process.cwd() and process.argv[2]
cwd == "/work"
targetDir == "/work/proj"

\* what readdir returns for each directory of the tree
Listing ==
    ("/work/proj" :>
        <<"lib", "node_modules", "notes.md", "rebuild.ts", "a.jsx", "b.tsx">>) @@
    ("/work/proj/lib" :> <<"c.js">>) @@
    ("/work/proj/node_modules" :> <<"m.js">>)

Directories == DOMAIN Listing
Files ==
    UNION {{pathJoin(d, Listing[d][i]) : i \in 1..Len(Listing[d])} :
              d \in Directories} \ Directories

\* the files whose text ranges over the texts made of the statements below
FreeFiles == {"/work/proj/a.jsx", "/work/proj/b.tsx"}

\* the statements a free file's text is made of
Statements ==
    {NamedImport(" A, B as C ", targetPackageName),
     Require(" A, B: C ", targetPackageName),
     NamespaceImport("NS", targetPackageName),
     Tag("openTag", "A"),
     Call("A"),
     MemberTag("memberSelfTag", "NS", "Card"),
     MemberCall("NS", "Card"),
     MemberCall("obj", "A")}

\* the statements of the free files in the runs about import lists that end
\* with a comma or are empty: import { A, }, import { }, const { A, } =
\* require(...), with a call and a closing tag beside them
ListStatements ==
    {NamedImport(" A, ", targetPackageName),
     NamedImport(" ", targetPackageName),
     Require(" A, ", targetPackageName),
     Call("A"),
     Tag("closeTag", "A")}

\* the statements of each alphabet of texts
statementsOf(a) == IF a = "lists" THEN ListStatements ELSE Statements

\* the text of the file under lib: const Lib = require(...); Lib(
LibContent == <<RequireDefault("Lib", targetPackageName), Call("Lib")>>

\* the text of every file the walk must not scan: an import and a use
HiddenContent ==
    <<DefaultImport("Hidden", targetPackageName), Tag("selfTag", "Hidden")>>

\* most statements in the free files together, most I/O failures in one run,
\* and most statements in the free files of a run in which I/O may fail
MaxStatements == 3
MaxFaults == 1
MaxFaultyStatements == 1

\* all texts of k statements of an alphabet
TextsOfLen(a, k) == [1..k -> statementsOf(a)]

\* what readFile can return for a file, a free one having at most budget
\* statements of the alphabet
textsFor(a, filePath, budget) ==
    IF filePath \in FreeFiles THEN UNION {TextsOfLen(a, k) : k \in 0..budget}
    ELSE IF filePath = "/work/proj/lib/c.js" THEN {LibContent}
    ELSE {HiddenContent}

\* what readFile returned for a file that was read
contentOf(texts, filePath) ==
    IF filePath \in FreeFiles THEN texts[filePath]
    ELSE IF filePath = "/work/proj/lib/c.js" THEN LibContent
    ELSE HiddenContent

\* path.relative(process.cwd(), filePath) for a path under the cwd
relative(from, to) ==
    IF startsWith(to, from \o "/") THEN substring(to, Len(from) + 1) ELSE to

(***************************************************************************)
(* State                                                                   *)
(***************************************************************************)
VARIABLES
    variant,                 \* "split": script-func-comp.js, "merged": the other
    alphabet,                \* which statements the free files are made of
    fileContent,             \* the text of each free file read so far
    textBudget,              \* how many more statements the free files may have
    faultBudget,             \* how many more I/O operations may fail
    componentUsage,          \* symbol -> set of files importing it
    componentInstancesJSX,   \* usage key -> list of files (split)
    componentInstancesFunc,  \* usage key -> list of files (split)
    componentInstances,      \* usage key -> list of files (merged)
    lastIndex,               \* the scan position of each import pattern
    scanStart,               \* the positions the latest findImports began at
    stack,                   \* the walkDirectory calls in progress
    pc,                      \* "main", "walk" or "exit"
    reportFile,              \* the written report, "none" before
    exitStatus,              \* the process exit status, "running" before
    errors,                  \* the console.error lines
    trace                    \* the I/O operations done so far

vars == <<variant, alphabet, fileContent, textBudget, faultBudget, componentUsage,
          componentInstancesJSX, componentInstancesFunc, componentInstances,
          lastIndex, scanStart, stack, pc, reportFile, exitStatus, errors, trace>>

\* the state main starts in, the free files drawn from alphabet a
Start(a) ==
    /\ variant \in {"split", "merged"}
    /\ alphabet = a
    /\ faultBudget \in 0..MaxFaults
    /\ textBudget = IF faultBudget > 0 THEN MaxFaultyStatements
                    ELSE MaxStatements
    /\ fileContent = <<>>
    /\ componentUsage = <<>>
    /\ componentInstancesJSX = <<>>
    /\ componentInstancesFunc = <<>>
    /\ componentInstances = <<>>
    /\ lastIndex = resetIndex
    /\ scanStart = resetIndex
    /\ stack = <<>>
    /\ pc = "main"
    /\ reportFile = "none"
    /\ exitStatus = "running"
    /\ errors = <<>>
    /\ trace = <<>>

Init == Start("statements")
InitLists == Start("lists")

(***************************************************************************)
(* The walk                                                                *)
(***************************************************************************)
\* a walkDirectory call: its directory, its entries, the entry it is at
frame(dirPath) == [dirPath |-> dirPath, entries |-> Listing[dirPath], i |-> 1]

top == stack[Len(stack)]
atEntry == pc = "walk" /\ stack # <<>> /\ top.i <= Len(top.entries)
entryPath == pathJoin(top.dirPath, top.entries[top.i])

\* ignored matching whole entry names instead of substrings of the path
ignoredByName(path) == \E pattern \in ignorePatterns : basename(path) = pattern

\* ignorePatterns.some((pattern) => entryPath.includes(pattern))
ignored(path) == \E pattern \in ignorePatterns : includes(path, pattern)

\* the for loop goes on to the next entry
advance == [stack EXCEPT ![Len(stack)].i = @ + 1]
\* the walkDirectory call returns
return == SubSeq(stack, 1, Len(stack) - 1)

event(op, path) == [op |-> op, path |-> path]
mayFail == faultBudget > 0

tables == <<componentUsage, componentInstancesJSX, componentInstancesFunc,
            componentInstances>>
inputs == <<variant, alphabet, fileContent, textBudget>>
patterns == <<lastIndex, scanStart>>

\* main calls walkDirectory(targetDir): readdir succeeds
Main ==
    /\ pc = "main"
    /\ pc' = "walk"
    /\ stack' = <<frame(targetDir)>>
    /\ trace' = Append(trace, event("readdir", targetDir))
    /\ UNCHANGED <<inputs, faultBudget, tables, patterns, reportFile,
                   exitStatus, errors>>

\* main calls walkDirectory(targetDir): readdir throws, the catch logs it
MainReaddirFails ==
    /\ pc = "main"
    /\ mayFail
    /\ faultBudget' = faultBudget - 1
    /\ pc' = "walk"
    /\ stack' = <<>>
    /\ errors' = Append(errors, event("walkDirectory", targetDir))
    /\ trace' = Append(trace, event("readdirError", targetDir))
    /\ UNCHANGED <<inputs, tables, patterns, reportFile, exitStatus>>

\* the entry's path contains an ignore pattern: continue
SkipIgnored ==
    /\ atEntry
    /\ ignored(entryPath)
    /\ stack' = advance
    /\ trace' = Append(trace, event("ignored", entryPath))
    /\ UNCHANGED <<inputs, faultBudget, tables, patterns, pc, reportFile,
                   exitStatus, errors>>

\* StatFails with no catch in walkDirectory: the error reaches main's catch
StatFailsUncaught ==
    /\ atEntry
    /\ ~ignored(entryPath)
    /\ mayFail
    /\ faultBudget' = faultBudget - 1
    /\ pc' = "exit"
    /\ exitStatus' = 1
    /\ errors' = Append(errors, event("main", entryPath))
    /\ trace' = Append(trace, event("statError", entryPath))
    /\ UNCHANGED <<inputs, tables, patterns, stack, reportFile>>

\* stat(entryPath) throws: the catch around the whole loop logs it and the
\* walkDirectory call returns
StatFails ==
    /\ atEntry
    /\ ~ignored(entryPath)
    /\ mayFail
    /\ faultBudget' = faultBudget - 1
    /\ stack' = return
    /\ errors' = Append(errors, event("walkDirectory", top.dirPath))
    /\ trace' = Append(trace, event("statError", entryPath))
    /\ UNCHANGED <<inputs, tables, patterns, pc, reportFile, exitStatus>>

\* the entry is a directory: walkDirectory(entryPath), readdir succeeds
WalkSubdirectory ==
    /\ atEntry
    /\ ~ignored(entryPath)
    /\ entryPath \in Directories
    /\ stack' = Append(advance, frame(entryPath))
    /\ trace' = trace \o <<event("stat", entryPath), event("readdir", entryPath)>>
    /\ UNCHANGED <<inputs, faultBudget, tables, patterns, pc, reportFile,
                   exitStatus, errors>>

\* the entry is a directory: walkDirectory(entryPath), readdir throws, the
\* catch of that call logs it and the caller's loop goes on
SubdirectoryReaddirFails ==
    /\ atEntry
    /\ ~ignored(entryPath)
    /\ entryPath \in Directories
    /\ mayFail
    /\ faultBudget' = faultBudget - 1
    /\ stack' = advance
    /\ errors' = Append(errors, event("walkDirectory", entryPath))
    /\ trace' = trace \o <<event("stat", entryPath),
                           event("readdirError", entryPath)>>
    /\ UNCHANGED <<inputs, tables, patterns, pc, reportFile, exitStatus>>

\* the entry is a file with a scanned extension: processFile(entryPath),
\* readFile succeeds
ProcessFile ==
    /\ atEntry
    /\ ~ignored(entryPath)
    /\ entryPath \in Files
    /\ extname(entryPath) \in fileExtensions
    /\ \E content \in textsFor(alphabet, entryPath, textBudget) :
         LET fileRelativePath == relative(cwd, entryPath)
             start == startIndex(variant, lastIndex)
             imports == findImportsFrom(componentUsage, content,
                                        fileRelativePath, start)
             usage == imports.usage
             inst == [jsx |-> componentInstancesJSX,
                      func |-> componentInstancesFunc,
                      all |-> componentInstances]
             found == IF DOMAIN usage # {}
                      THEN findComponentUsages(variant, usage, inst, content,
                                               fileRelativePath)
                      ELSE inst
         IN  /\ scanStart' = start
             /\ lastIndex' = imports.lastIndex
             /\ componentUsage' = usage
             /\ componentInstancesJSX' = found.jsx
             /\ componentInstancesFunc' = found.func
             /\ componentInstances' = found.all
             /\ IF entryPath \in FreeFiles
                THEN /\ fileContent' = fileContent @@ (entryPath :> content)
                     /\ textBudget' = textBudget - Len(content)
                ELSE UNCHANGED <<fileContent, textBudget>>
    /\ stack' = advance
    /\ trace' = trace \o <<event("stat", entryPath), event("readFile", entryPath)>>
    /\ UNCHANGED <<variant, alphabet, faultBudget, pc, reportFile, exitStatus,
                   errors>>

\* processFile(entryPath): readFile throws, the catch of processFile logs it
ProcessFileReadFails ==
    /\ atEntry
    /\ ~ignored(entryPath)
    /\ entryPath \in Files
    /\ extname(entryPath) \in fileExtensions
    /\ mayFail
    /\ faultBudget' = faultBudget - 1
    /\ stack' = advance
    /\ errors' = Append(errors, event("processFile", entryPath))
    /\ trace' = trace \o <<event("stat", entryPath),
                           event("readFileError", entryPath)>>
    /\ UNCHANGED <<inputs, tables, patterns, pc, reportFile, exitStatus>>

\* the entry is a file with another extension: nothing is done with it
SkipOther ==
    /\ atEntry
    /\ ~ignored(entryPath)
    /\ entryPath \in Files
    /\ extname(entryPath) \notin fileExtensions
    /\ stack' = advance
    /\ trace' = Append(trace, event("stat", entryPath))
    /\ UNCHANGED <<inputs, faultBudget, tables, patterns, pc, reportFile,
                   exitStatus, errors>>

\* the loop of a walkDirectory call is over: the call returns
WalkReturns ==
    /\ pc = "walk"
    /\ stack # <<>>
    /\ top.i > Len(top.entries)
    /\ stack' = return
    /\ UNCHANGED <<inputs, faultBudget, tables, patterns, pc, reportFile,
                   exitStatus, errors, trace>>

currentReport ==
    generateReport(variant, componentUsage,
                   [jsx |-> componentInstancesJSX,
                    func |-> componentInstancesFunc,
                    all |-> componentInstances])

\* the exit status of a run whose main promise was fulfilled or rejected
mainExit(rejected) == IF rejected THEN 1 ELSE 0

\* the walk is over: the report is generated and written, main returns
WriteReport ==
    /\ pc = "walk"
    /\ stack = <<>>
    /\ reportFile' = currentReport
    /\ pc' = "exit"
    /\ exitStatus' = mainExit(FALSE)
    /\ trace' = Append(trace, event("writeFile", "component-usage-report.txt"))
    /\ UNCHANGED <<inputs, faultBudget, tables, patterns, stack, errors>>

\* writeFile throws: main rejects, the catch on main() logs it and exits
WriteReportFails ==
    /\ pc = "walk"
    /\ stack = <<>>
    /\ mayFail
    /\ faultBudget' = faultBudget - 1
    /\ pc' = "exit"
    /\ exitStatus' = mainExit(TRUE)
    /\ errors' = Append(errors, event("main", "component-usage-report.txt"))
    /\ trace' = Append(trace,
                       event("writeFileError", "component-usage-report.txt"))
    /\ UNCHANGED <<inputs, tables, patterns, stack, reportFile>>

Next ==
    \/ Main
    \/ MainReaddirFails
    \/ SkipIgnored
    \/ StatFails
    \/ WalkSubdirectory
    \/ SubdirectoryReaddirFails
    \/ ProcessFile
    \/ ProcessFileReadFails
    \/ SkipOther
    \/ WalkReturns
    \/ WriteReport
    \/ WriteReportFails

Spec == Init /\ [][Next]_vars
SpecLists == InitLists /\ [][Next]_vars

(***************************************************************************)
(* Vocabulary of the properties                                            *)
(***************************************************************************)
\* the files processFile has read so far, and the order it read them in
readIndex(f) == {i \in 1..Len(trace) : trace[i] = event("readFile", f)}
processedFiles == {f \in Files : readIndex(f) # {}}
processedBefore(f, g) ==
    \E i \in readIndex(f) : \E j \in readIndex(g) : i < j

\* a file's text, the name the tables know it by, what its text says
textOf(f) == contentOf(fileContent, f)
nameOf(f) == relative(cwd, f)
contains(f, st) == \E i \in 1..Len(textOf(f)) : textOf(f)[i] = st
importsOf(f) == DOMAIN findImports(<<>>, textOf(f), nameOf(f))
hasCallText(f, S) == contains(f, Call(S))
hasMarkup(f, S) ==
    \E i \in 1..Len(textOf(f)) :
        /\ textOf(f)[i].text = S
        /\ textOf(f)[i].kind \in {"openTag", "selfTag",
                                  "memberOpenTag", "memberSelfTag"}
plain(S) == ~startsWith(S, "*")

\* the table call-style usage goes to
callTable ==
    IF variant = "split" THEN componentInstancesFunc ELSE componentInstances

\* the path contains one of the ignore-set substrings
hasIgnoredPart(path) == \E pattern \in ignorePatterns : includes(path, pattern)
\* the entries of the tree with such a path
IgnoredPaths == {p \in Files \cup Directories : hasIgnoredPart(p)}

\* every file some table names
listFiles(t) == UNION {{t[k][i] : i \in 1..Len(t[k])} : k \in DOMAIN t}
tableFiles ==
    UNION {componentUsage[k] : k \in DOMAIN componentUsage} \cup
    listFiles(componentInstancesJSX) \cup listFiles(componentInstancesFunc) \cup
    listFiles(componentInstances)

(***************************************************************************)
(* C1                                                                      *)
(***************************************************************************)
\* A imports the plain symbol S, B does not import S and holds the call S(
crossFileCall(A, B, S) ==
    /\ A # B
    /\ plain(S)
    /\ hasCallText(B, S)
    /\ S \in importsOf(A)
    /\ S \notin importsOf(B)

\* C1 as stated: at the end of every walk that processed a file A importing
\* the plain symbol S and another file B that never imports S but contains
\* the call text S(, in whichever order, the call-style table records B
\* under S.
C1_AnyOrder ==
    pc = "exit" =>
        LET read == processedFiles
        IN  \A A \in read : \A B \in read \ {A} :
                \A S \in importsOf(A) :
                    crossFileCall(A, B, S) => listed(callTable, S, nameOf(B))

\* C1 amended: the same when A is processed before B and B holds no
\* markup-style match for S.
C1_ImportedFirst ==
    pc = "exit" =>
        LET read == processedFiles
        IN  \A A \in read : \A B \in read \ {A} :
                \A S \in importsOf(A) :
                    (/\ crossFileCall(A, B, S)
                     /\ processedBefore(A, B)
                     /\ ~hasMarkup(B, S))
                        => listed(callTable, S, nameOf(B))

C1_Witness ==
    /\ pc = "exit"
    /\ FreeFiles \subseteq processedFiles
    /\ crossFileCall("/work/proj/a.jsx", "/work/proj/b.tsx", "A")
    /\ processedBefore("/work/proj/a.jsx", "/work/proj/b.tsx")
    /\ ~hasMarkup("/work/proj/b.tsx", "A")
    /\ listed(callTable, "A", "proj/b.tsx")

(***************************************************************************)
(* C2, C3                                                                  *)
(***************************************************************************)
imported(S, f) == S \in DOMAIN componentUsage /\ nameOf(f) \in componentUsage[S]

\* C2 as stated: once a file containing import { A, B as C } from the target
\* module is processed, the Symbol Table maps A and C to sets containing the
\* file, and the statement does not add the file under B.
C2_AliasIsKey ==
    \A f \in processedFiles :
        contains(f, NamedImport(" A, B as C ", targetPackageName)) =>
            /\ imported("A", f)
            /\ imported("C", f)
            /\ ~contains(f, Require(" A, B: C ", targetPackageName))
                   => ~imported("B", f)

\* C3 as stated: once a file containing const { A, B: C } = require of the
\* target module is processed, the Symbol Table maps A and C to sets
\* containing the file, and the statement does not add the file under B.
C3_RenameIsKey ==
    \A f \in processedFiles :
        contains(f, Require(" A, B: C ", targetPackageName)) =>
            /\ imported("A", f)
            /\ imported("C", f)
            /\ ~contains(f, NamedImport(" A, B as C ", targetPackageName))
                   => ~imported("B", f)

(***************************************************************************)
(* C4                                                                      *)
(***************************************************************************)
\* C4: with the split tables, in every state no file is recorded under a
\* plain symbol in both the markup-style and the call-style table.
C4_NoDoubleCount ==
    variant = "split" =>
        \A S \in DOMAIN componentUsage : \A F \in Files :
            plain(S) =>
                ~(/\ listed(componentInstancesJSX, S, nameOf(F))
                  /\ listed(componentInstancesFunc, S, nameOf(F)))

C4_Witness ==
    /\ variant = "split"
    /\ \E F \in processedFiles :
        /\ hasMarkup(F, "A")
        /\ hasCallText(F, "A")
        /\ listed(componentInstancesJSX, "A", nameOf(F))
        /\ ~listed(componentInstancesFunc, "A", nameOf(F))

(***************************************************************************)
(* C5                                                                      *)
(***************************************************************************)
\* the text of F holds import * as ns from the target module and, after it,
\* an opening or self-closing tag <ns.member
namespaceMarkup(F, ns, member) ==
    \E i \in 1..Len(textOf(F)) : \E j \in 1..Len(textOf(F)) :
        /\ i < j
        /\ textOf(F)[i] = NamespaceImport(ns, targetPackageName)
        /\ textOf(F)[j].kind \in {"memberOpenTag", "memberSelfTag"}
        /\ textOf(F)[j].text = ns
        /\ textOf(F)[j].member = member

\* C5: with the split tables, once a file F holding import * as NS and then
\* <NS.Card /> is processed, the markup-style table lists F under NS.Card and
\* the call-style table does not, whether or not F also holds NS.Card( .
C5_NamespaceMarkupOnly ==
    variant = "split" =>
        \A F \in processedFiles :
            namespaceMarkup(F, "NS", "Card") =>
                /\ listed(componentInstancesJSX, "NS.Card", nameOf(F))
                /\ ~listed(componentInstancesFunc, "NS.Card", nameOf(F))

C5_Witness ==
    /\ variant = "split"
    /\ \E F \in processedFiles :
        /\ namespaceMarkup(F, "NS", "Card")
        /\ contains(F, MemberCall("NS", "Card"))
        /\ listed(componentInstancesJSX, "NS.Card", nameOf(F))
        /\ ~listed(componentInstancesFunc, "NS.Card", nameOf(F))

(***************************************************************************)
(* C6                                                                      *)
(***************************************************************************)
happened(ops, path) ==
    \E i \in 1..Len(trace) : trace[i].path = path /\ trace[i].op \in ops

\* C6 as stated: at the end of the walk, for every entry whose stat or read
\* failed, every later entry of the same listing that is not ignored was
\* visited (stat was called on it) and, if it is a file with a scanned
\* extension, was handed to processFile.
C6_SiblingsStillVisited ==
    pc = "exit" =>
        \A d \in Directories : \A i \in 1..Len(Listing[d]) :
            happened({"statError", "readFileError"}, pathJoin(d, Listing[d][i])) =>
                \A j \in (i + 1)..Len(Listing[d]) :
                    LET sibling == pathJoin(d, Listing[d][j])
                    IN  ~hasIgnoredPart(sibling) =>
                            /\ happened({"stat", "statError"}, sibling)
                            /\ (sibling \in Files /\
                                extname(sibling) \in fileExtensions)
                                   => happened({"readFile", "readFileError",
                                                "statError"}, sibling)

(***************************************************************************)
(* C7, C8                                                                  *)
(***************************************************************************)
\* S appears in a markup-style or call-style pattern of a scanned file
appears(S) == \E F \in processedFiles : hasMarkup(F, S) \/ hasCallText(F, S)

\* ... of a file scanned no earlier than a file that imports S
appearsOnceImported(S) ==
    \E F \in processedFiles : \E G \in processedFiles :
        /\ hasMarkup(F, S) \/ hasCallText(F, S)
        /\ S \in importsOf(G)
        /\ G = F \/ processedBefore(G, F)

plainSymbols == {S \in DOMAIN componentUsage : plain(S)}

\* C7 as stated: in the report of the split variant, an imported plain symbol
\* that appears in a markup-style or call-style pattern of some scanned file
\* is not listed in the no-usage block and one that appears in none is,
\* whatever the order of the files.
C7_UnusedIsNeverAppearing ==
    (pc = "exit" /\ exitStatus = 0 /\ variant = "split") =>
        \A S \in plainSymbols : S \in reportFile.unused <=> ~appears(S)

\* C7 amended: an imported plain symbol is left out of the no-usage block
\* exactly when it appears in a pattern of a file processed no earlier than
\* a file importing it; a symbol that appears in no pattern is listed.
C7_UnusedIsNeverRecorded ==
    (pc = "exit" /\ exitStatus = 0 /\ variant = "split") =>
        \A S \in plainSymbols :
            S \in reportFile.unused <=> ~appearsOnceImported(S)

C7_Witness ==
    /\ pc = "exit" /\ exitStatus = 0 /\ variant = "split"
    /\ FreeFiles \subseteq processedFiles
    /\ {"A", "B"} \subseteq plainSymbols
    /\ appearsOnceImported("A")
    /\ hasCallText("/work/proj/b.tsx", "A")
    /\ ~appears("B")
    /\ reportFile.unused = {"B"}

\* C8 as stated: in the report of either variant, no namespace-tagged key of
\* the Symbol Table is listed in the unused block.
C8_NoNamespaceKeyUnused ==
    (pc = "exit" /\ exitStatus = 0) =>
        \A c \in DOMAIN componentUsage :
            startsWith(c, "*") => c \notin reportFile.unused

(***************************************************************************)
(* C9                                                                      *)
(***************************************************************************)
\* C9: an entry whose path contains an ignore-set substring is never passed
\* to stat, readdir or readFile, and no table names a file with such a path.
C9_IgnoredContributeNothing ==
    /\ \A i \in 1..Len(trace) :
          trace[i].op \in {"stat", "statError", "readdir", "readdirError",
                           "readFile", "readFileError"}
              => trace[i].path \notin IgnoredPaths
    /\ \A f \in tableFiles : pathJoin(cwd, f) \notin IgnoredPaths

C9_Witness ==
    /\ pc = "exit"
    /\ happened({"ignored"}, "/work/proj/node_modules")
    /\ happened({"ignored"}, "/work/proj/rebuild.ts")
    /\ ~happened({"stat", "readFile"}, "/work/proj/rebuild.ts")
    /\ ~happened({"readdir"}, "/work/proj/node_modules")
    /\ processedFiles # {}
    /\ tableFiles # {}

(***************************************************************************)
(* C10                                                                     *)
(***************************************************************************)
\* C10: the run has no exit status before it ends; it ends with status 0
\* exactly when the report was written, whatever directory listings, stats
\* and file reads failed, and with status 1 exactly when the write failed.
C10_ExitStatus ==
    IF pc = "exit"
    THEN /\ exitStatus \in {0, 1}
         /\ exitStatus = 0 <=> happened({"writeFile"}, "component-usage-report.txt")
         /\ exitStatus = 1 <=>
                trace[Len(trace)] =
                    event("writeFileError", "component-usage-report.txt")
    ELSE exitStatus = "running"

C10_Witness ==
    /\ pc = "exit"
    /\ exitStatus = 0
    /\ \E i \in 1..Len(errors) :
          errors[i].op \in {"walkDirectory", "processFile"}

(***************************************************************************)
(* C11                                                                     *)
(***************************************************************************)
\* how many entries of the table under key K are the file name
entries(table, K, name) ==
    IF K \in DOMAIN table
    THEN Cardinality({i \in 1..Len(table[K]) : table[K][i] = name})
    ELSE 0

\* the symbol keys the table held when the usages of F were searched: those
\* with an importer read no later than F
knownAt(F) ==
    LET upTo == {nameOf(G) : G \in {H \in processedFiles :
                                      H = F \/ processedBefore(H, F)}}
    IN  {S \in DOMAIN componentUsage : componentUsage[S] \cap upTo # {}}

\* the statements of a text that are opening or self-closing tags of the
\* plain symbol K, and those that are calls of it
plainTags(text, K) ==
    {i \in 1..Len(text) :
        /\ text[i].text = K
        /\ text[i].kind \in {"openTag", "selfTag",
                             "memberOpenTag", "memberSelfTag"}}
plainCalls(text, K) == {i \in 1..Len(text) : text[i] = Call(K)}

\* the statements of a text that are tags, or calls, of the member K of a
\* namespace alias among the known keys
memberNamed(st, K, known) ==
    /\ st.text \o "." \o st.member = K
    /\ ("*" \o st.text) \in known
memberTags(text, K, known) ==
    {i \in 1..Len(text) :
        /\ text[i].kind \in {"memberOpenTag", "memberSelfTag"}
        /\ memberNamed(text[i], K, known)}
memberCalls(text, K, known) ==
    {i \in 1..Len(text) :
        text[i].kind = "memberCall" /\ memberNamed(text[i], K, known)}

\* the recorded occurrences of each usage kind for key K in a text: the
\* markup matches, and the call matches unless markup of K in the same text
\* suppresses them
markupOccurrences(text, K, known) ==
    (IF plain(K) /\ K \in known THEN Cardinality(plainTags(text, K)) ELSE 0) +
    Cardinality(memberTags(text, K, known))
callOccurrences(text, K, known) ==
    (IF plain(K) /\ K \in known /\ plainTags(text, K) = {}
     THEN Cardinality(plainCalls(text, K)) ELSE 0) +
    (IF memberTags(text, K, known) = {}
     THEN Cardinality(memberCalls(text, K, known)) ELSE 0)

\* the usage keys a text can give rise to, besides those in the tables
memberNames(text) ==
    {text[i].text \o "." \o text[i].member : i \in 1..Len(text)}

\* C11: with the split tables, for every usage key K and processed file F
\* the markup table holds F under K once per recorded markup occurrence of K
\* in F and the call table once per recorded, non-suppressed call occurrence:
\* entries are appended per occurrence and never de-duplicated.
C11_OneEntryPerOccurrence ==
    variant = "split" =>
        \A F \in processedFiles :
            LET text == textOf(F)
                name == nameOf(F)
                known == knownAt(F)
                keys == DOMAIN componentInstancesJSX \cup
                        DOMAIN componentInstancesFunc \cup
                        DOMAIN componentUsage \cup memberNames(text)
            IN  \A K \in keys :
                    /\ entries(componentInstancesJSX, K, name) =
                           markupOccurrences(text, K, known)
                    /\ entries(componentInstancesFunc, K, name) =
                           callOccurrences(text, K, known)

C11_Witness ==
    /\ variant = "split"
    /\ \E F \in processedFiles :
        /\ Cardinality(plainTags(textOf(F), "A")) = 2
        /\ entries(componentInstancesJSX, "A", nameOf(F)) = 2
        /\ entries(componentInstancesFunc, "A", nameOf(F)) = 0

(***************************************************************************)
(* C12                                                                     *)
(***************************************************************************)
\* the symbol keys under which the table lists a file name as an importer
registeredBy(name) ==
    {S \in DOMAIN componentUsage : name \in componentUsage[S]}

C13_NoEmptyKey ==
    /\ "" \notin DOMAIN componentUsage
    /\ "" \notin DOMAIN componentInstancesJSX
    /\ "" \notin DOMAIN componentInstancesFunc
    /\ "" \notin DOMAIN componentInstances
====
